---- MODULE Spec2Model ----
(***************************************************************************)
(* Model of the network configuration engine of incus-osd                  *)
(* (internal/systemd network.go, concatenated in api_system.go):           *)
(* ApplyNetworkConfiguration, generateNetworkConfiguration, the two        *)
(* polling loops and the unit file generator.                              *)
(*                                                                         *)
(* Text is modelled as a sequence of newline-terminated lines (strings).   *)
(* Time is counted in ticks of 500 ms, relative to the start of the call.  *)
(***************************************************************************)
EXTENDS Integers, Sequences, FiniteSets, TLC

VARIABLES
    pc,           \* position of the running call ("idle" when none runs)
    caller,       \* "Apply", "rename" or "online": the function that was called
    cfg,          \* reference to the networkCfg of the running call
    timeout,      \* the timeout argument of the running call (ticks)
    now,          \* time.Now(), in ticks since the call started
    endTime,      \* endTime of the polling loop that runs
    idx,          \* index into devicesToCheck of the current pass
    result,       \* "" while running, else "ok" or the returned error
    ctxCancelled, \* whether ctx has been cancelled
    hostname,     \* the system hostname
    environment,  \* the proxy environment
    dirExists,    \* whether SystemdNetworkConfigPath exists
    dir,          \* file name -> contents, of SystemdNetworkConfigPath
    timesyncFile, \* <<>> when SystemdTimesyncConfigFile is absent, else <<contents>>
    restarted,    \* units restarted by the running call, in order
    trace,        \* history: the steps of the running call that have returned
    obs,          \* history: what the current online pass saw of each device
    stuck,        \* history: a device that never reports online ("" if none)
    passes,       \* history: polling passes begun by the loop that runs
    cancelPasses, \* history: polling passes begun after ctx was cancelled
    onlineStart,  \* history: time.Now() when waitForNetworkOnline was entered
    onDisk,       \* history: what generateNetworkConfiguration found on disk
    fn,           \* the generator function called on its own ("" when none)
    args,         \* the arguments of that call
    ret,          \* <<>> until that call has returned, else <<its value>>
    TriggerShutdown, \* s.state.TriggerShutdown: "open" or "closed"
    TriggerReboot,   \* s.state.TriggerReboot: "open" or "closed"
    handlers,     \* the req.Action of the apiSystem handlers that are at the switch
    responses     \* history: the requests that were answered, with what

vars == <<pc, caller, cfg, timeout, now, endTime, idx, result, ctxCancelled,
          hostname, environment, dirExists, dir, timesyncFile, restarted,
          trace, obs, stuck, passes, cancelPasses, onlineStart, onDisk,
          fn, args, ret, TriggerShutdown, TriggerReboot, handlers, responses>>

\* the state of a generator function called on its own
Pure == <<fn, args, ret>>
\* the state of the system action endpoint
Control == <<TriggerShutdown, TriggerReboot, handlers, responses>>
\* the state of the network configuration engine
Engine == <<pc, caller, cfg, timeout, now, endTime, idx, result, ctxCancelled,
            hostname, environment, dirExists, dir, timesyncFile, restarted,
            trace, obs, stuck, passes, cancelPasses, onlineStart, onDisk>>

----------------------------------------------------------------------------
(* Bounds of the model *)

\* the environment lets at most this many extra ticks pass outside of Sleep
MaxTime == 1
\* the largest timeout a caller passes (ticks); the smallest is -1
MaxTimeout == 1
\* the os.WriteFile calls into the directory that can fail are the first ones
MaxFailedWrite == 2

(* Program constants, in ticks of 500 ms *)

\* 5*time.Second
RenameTimeout == 10
\* 500*time.Millisecond
SleepTicks == 1

----------------------------------------------------------------------------
(* Helpers on sequences and text *)

RECURSIVE Concat(_)
\* the string made of the strings of s, in order
Concat(s) == IF s = <<>> THEN "" ELSE Head(s) \o Concat(Tail(s))

RECURSIVE Join(_, _)
\* strings.Join
Join(s, sep) ==
    IF s = <<>> THEN ""
    ELSE IF Len(s) = 1 THEN s[1]
    ELSE s[1] \o sep \o Join(Tail(s), sep)

RECURSIVE Flatten(_)
\* the concatenation of a sequence of sequences
Flatten(ss) == IF ss = <<>> THEN <<>> ELSE Head(ss) \o Flatten(Tail(ss))

Range(s) == {s[i] : i \in DOMAIN s}

\* strings.ToLower on one character of a hardware address
LowerChar(c) ==
    CASE c = "A" -> "a" [] c = "B" -> "b" [] c = "C" -> "c"
      [] c = "D" -> "d" [] c = "E" -> "e" [] c = "F" -> "f"
      [] OTHER -> c

RECURSIVE StripChars(_)
StripChars(hw) ==
    IF hw = <<>> THEN <<>>
    ELSE IF Head(hw) = ":" THEN StripChars(Tail(hw))
    ELSE <<LowerChar(Head(hw))>> \o StripChars(Tail(hw))

\* strings.ToLower(strings.ReplaceAll(hwaddr, ":", ""))
StrippedHwaddr(hw) == Concat(StripChars(hw))

----------------------------------------------------------------------------
(* The configurations the callers pass (api.SystemNetworkConfig) *)

None == <<>>

Mac1 == <<"A","A",":","B","B",":","C","C",":","D","D",":","E","E",":","F","F">>
Mac2 == <<"a","a",":","b","b",":","c","c",":","d","d",":","e","e",":","0","2">>

Iface(name, hw, addrs, vlan, tags, rfo) ==
    [Name |-> name, Hwaddr |-> hw, MTU |-> 0, Addresses |-> addrs,
     Routes |-> <<>>, VLAN |-> vlan, VLANTags |-> tags, LLDP |-> FALSE,
     RequiredForOnline |-> rfo]

\* scenario A: one interface on DHCP, a hostname, a proxy and two time servers
CfgA ==
    [Interfaces |-> <<Iface("eth0", Mac1, <<"dhcp4">>, 0, <<>>, "")>>,
     Bonds |-> <<>>, VLANs |-> <<>>,
     DNS |-> <<[Hostname |-> "host", Domain |-> "example.org",
                SearchDomains |-> <<"example.org">>, Nameservers |-> <<"10.0.0.53">>]>>,
     NTP |-> <<[Timeservers |-> <<"ntp1.example.org", "ntp2.example.org">>]>>,
     Proxy |-> "http://proxy:3128"]

\* scenario B: a trunk with two VLANs, an NTP section without servers
CfgB ==
    [Interfaces |-> <<[Iface("eth0", Mac1, <<"dhcp4", "slaac">>, 10, <<20, 10>>, "ipv4")
                        EXCEPT !.MTU = 9000, !.LLDP = TRUE,
                               !.Routes = <<[To |-> "0.0.0.0/0", Via |-> "dhcp4"]>>]>>,
     Bonds |-> <<>>,
     VLANs |-> <<[Name |-> "vlan10", ID |-> 10, Parent |-> "eth0", MTU |-> 0,
                  Addresses |-> <<"10.0.10.2/24">>, Routes |-> <<>>,
                  RequiredForOnline |-> ""],
                 [Name |-> "vlan20", ID |-> 20, Parent |-> "eth0", MTU |-> 1400,
                  Addresses |-> <<>>, Routes |-> <<>>, RequiredForOnline |-> "no"]>>,
     DNS |-> <<[Hostname |-> "host", Domain |-> "", SearchDomains |-> <<>>,
                Nameservers |-> <<>>]>>,
     NTP |-> <<[Timeservers |-> <<>>]>>,
     Proxy |-> ""]

\* scenario C: a bond of two members without a hardware address of its own
CfgC ==
    [Interfaces |-> <<>>,
     Bonds |-> <<[Name |-> "bond0", Hwaddr |-> <<>>, Members |-> <<Mac1, Mac2>>,
                  Mode |-> "802.3ad", MTU |-> 0, Addresses |-> <<"dhcp6">>,
                  Routes |-> <<[To |-> "::/0", Via |-> "slaac"]>>,
                  VLAN |-> 0, VLANTags |-> <<>>, LLDP |-> TRUE,
                  RequiredForOnline |-> ""]>>,
     VLANs |-> <<>>, DNS |-> None, NTP |-> None, Proxy |-> ""]

\* a device without any address: the online wait has nothing to check
CfgD ==
    [Interfaces |-> <<Iface("eth0", Mac1, <<>>, 0, <<>>, "")>>,
     Bonds |-> <<>>, VLANs |-> <<>>, DNS |-> None,
     NTP |-> <<[Timeservers |-> <<"ntp3.example.org">>]>>, Proxy |-> ""]

\* invalid: the VLAN's parent names no device
CfgBad ==
    [Interfaces |-> <<Iface("eth0", Mac1, <<"dhcp4">>, 0, <<>>, "")>>,
     Bonds |-> <<>>,
     VLANs |-> <<[Name |-> "vlan10", ID |-> 10, Parent |-> "eth9", MTU |-> 0,
                  Addresses |-> <<>>, Routes |-> <<>>, RequiredForOnline |-> ""]>>,
     DNS |-> None, NTP |-> None, Proxy |-> ""]

\* a nil *api.SystemNetworkConfig
NilCfg == [nil |-> TRUE]

\* the state holds a reference to the caller's configuration
Configs == {"A", "B", "C", "D", "Bad", "nil"}

ValidConfigs == {"A", "B", "C", "D"}

Config(ref) ==
    CASE ref = "A" -> CfgA
      [] ref = "B" -> CfgB
      [] ref = "C" -> CfgC
      [] ref = "D" -> CfgD
      [] ref = "Bad" -> CfgBad
      [] OTHER -> NilCfg

Timeouts == -1 .. MaxTimeout

----------------------------------------------------------------------------
(* The unit file generator *)

File(name, contents) == [Name |-> name, Contents |-> contents]

MTUString(mtu) == IF mtu # 0 THEN "MTUBytes=" \o ToString(mtu) ELSE ""

FormatBool(b) == IF b THEN "true" ELSE "false"

\* mutant: a device without addresses is required like any other
generateLinkSectionContents_IgnoreAddresses(addresses, requiredForOnline) ==
    IF requiredForOnline = "no"
    THEN <<"RequiredForOnline=no">>
    ELSE <<"RequiredForOnline=yes",
           "RequiredFamilyForOnline=" \o
               (IF requiredForOnline = "" THEN "any" ELSE requiredForOnline)>>

\* the RequiredForOnline lines of a [Link] section
generateLinkSectionContents(addresses, requiredForOnline) ==
    IF Len(addresses) = 0 \/ requiredForOnline = "no"
    THEN <<"RequiredForOnline=no">>
    ELSE <<"RequiredForOnline=yes",
           "RequiredFamilyForOnline=" \o
               (IF requiredForOnline = "" THEN "any" ELSE requiredForOnline)>>

IsKeyword(addr) == addr \in {"dhcp4", "dhcp6", "slaac"}

RECURSIVE AddressLines(_)
\* the default branch of the switch of processAddresses, in list order
AddressLines(addresses) ==
    IF addresses = <<>> THEN <<>>
    ELSE (IF IsKeyword(Head(addresses)) THEN <<>>
          ELSE <<"Address=" \o Head(addresses)>>) \o AddressLines(Tail(addresses))

\* mutant: link-local addressing follows the literal addresses, not the list length
processAddresses_ByLiterals(addresses) ==
    (IF \A i \in DOMAIN addresses : IsKeyword(addresses[i])
     THEN <<"LinkLocalAddressing=ipv6">>
     ELSE <<"LinkLocalAddressing=no", "ConfigureWithoutCarrier=yes">>)
    \o AddressLines(addresses)
    \o (IF "slaac" \in Range(addresses)
        THEN <<"IPv6AcceptRA=true">> ELSE <<"IPv6AcceptRA=false">>)
    \o (IF "dhcp4" \in Range(addresses) /\ "dhcp6" \in Range(addresses)
        THEN <<"DHCP=yes">>
        ELSE IF "dhcp4" \in Range(addresses) THEN <<"DHCP=ipv4">>
        ELSE IF "dhcp6" \in Range(addresses) THEN <<"DHCP=ipv6">>
        ELSE <<>>)

processAddresses(addresses) ==
    LET hasDHCP4 == "dhcp4" \in Range(addresses)
        hasDHCP6 == "dhcp6" \in Range(addresses)
        acceptIPv6RA == "slaac" \in Range(addresses)
    IN  (IF Len(addresses) # 0
         THEN <<"LinkLocalAddressing=ipv6">>
         ELSE <<"LinkLocalAddressing=no", "ConfigureWithoutCarrier=yes">>)
        \o AddressLines(addresses)
        \o (IF acceptIPv6RA THEN <<"IPv6AcceptRA=true">> ELSE <<"IPv6AcceptRA=false">>)
        \o (IF hasDHCP4 /\ hasDHCP6 THEN <<"DHCP=yes">>
            ELSE IF hasDHCP4 THEN <<"DHCP=ipv4">>
            ELSE IF hasDHCP6 THEN <<"DHCP=ipv6">>
            ELSE <<>>)

RECURSIVE processRoutes(_)
processRoutes(routes) ==
    IF routes = <<>> THEN <<>>
    ELSE LET route == Head(routes)
         IN  <<"", "[Route]",
               CASE route.Via = "dhcp4" -> "Gateway=_dhcp4"
                 [] route.Via = "slaac" -> "Gateway=_ipv6ra"
                 [] OTHER -> "Gateway=" \o route.Via,
               "Destination=" \o route.To>>
             \o processRoutes(Tail(routes))

RECURSIVE VLANLines(_, _)
VLANLines(name, vlans) ==
    IF vlans = <<>> THEN <<>>
    ELSE (IF Head(vlans).Parent = name THEN <<"VLAN=" \o Head(vlans).Name>> ELSE <<>>)
         \o VLANLines(name, Tail(vlans))

generateNetworkSectionContents(name, vlans, dns, ntp) ==
    VLANLines(name, vlans)
    \o (IF dns # None
        THEN (IF Len(dns[1].SearchDomains) > 0
              THEN <<"Domains=" \o Join(dns[1].SearchDomains, " ")>> ELSE <<>>)
             \o [i \in DOMAIN dns[1].Nameservers |-> "DNS=" \o dns[1].Nameservers[i]]
        ELSE <<>>)
    \o (IF ntp # None
        THEN [i \in DOMAIN ntp[1].Timeservers |-> "NTP=" \o ntp[1].Timeservers[i]]
        ELSE <<>>)

generateTimesyncContents(ntp) ==
    IF Len(ntp.Timeservers) = 0 THEN <<>>
    ELSE <<"[Time]", "FallbackNTP=" \o Join(ntp.Timeservers, " ")>>

RECURSIVE ParentIDs(_, _)
\* the IDs of the VLANs whose Parent is bridgeName, in list order
ParentIDs(bridgeName, vlans) ==
    IF vlans = <<>> THEN <<>>
    ELSE (IF Head(vlans).Parent = bridgeName THEN <<Head(vlans).ID>> ELSE <<>>)
         \o ParentIDs(bridgeName, Tail(vlans))

\* slices.Sort: the element at position i is the one that has fewer than i
\* elements below it and at least i elements not above it
Sort(s) ==
    [i \in 1 .. Len(s) |->
        CHOOSE x \in Range(s) :
            /\ Cardinality({j \in DOMAIN s : s[j] < x}) < i
            /\ Cardinality({j \in DOMAIN s : s[j] <= x}) >= i]

\* mutant: duplicates are kept
Compact_Identity(s) == s

RECURSIVE Compact(_)
\* slices.Compact: consecutive equal elements become one
Compact(s) ==
    IF Len(s) <= 1 THEN s
    ELSE IF s[1] = s[2] THEN Compact(Tail(s))
    ELSE <<s[1]>> \o Compact(Tail(s))

generateBridgeVLANContents(bridgeName, specificVLAN, additionalVLANTags, vlans) ==
    LET vlanTags == Compact(Sort((IF specificVLAN # 0 THEN <<specificVLAN>> ELSE <<>>)
                                 \o additionalVLANTags \o ParentIDs(bridgeName, vlans)))
    IN  IF Len(vlanTags) > 0
        THEN (IF specificVLAN # 0
              THEN <<"", "[BridgeVLAN]", "PVID=" \o ToString(specificVLAN),
                     "EgressUntagged=" \o ToString(specificVLAN)>>
              ELSE <<>>)
             \o Flatten([i \in DOMAIN vlanTags |->
                           <<"", "[BridgeVLAN]", "VLAN=" \o ToString(vlanTags[i])>>])
        ELSE <<>>

generateLinkFileContents(networkCfg) ==
    [i \in DOMAIN networkCfg.Interfaces |->
        LET hw == networkCfg.Interfaces[i].Hwaddr
        IN  File("00-en" \o StrippedHwaddr(hw) \o ".link",
                 <<"[Match]", "PermanentMACAddress=" \o Concat(hw), "",
                   "[Link]", "MACAddressPolicy=random", "NamePolicy=",
                   "Name=en" \o StrippedHwaddr(hw)>>)]
    \o Flatten([b \in DOMAIN networkCfg.Bonds |->
        [m \in DOMAIN networkCfg.Bonds[b].Members |->
            LET member == networkCfg.Bonds[b].Members[m]
            IN  File("01-en" \o StrippedHwaddr(member) \o ".link",
                     <<"[Match]", "PermanentMACAddress=" \o Concat(member), "",
                       "[Link]", "NamePolicy=",
                       "Name=en" \o StrippedHwaddr(member)>>)]])

generateNetdevFileContents(networkCfg) ==
    Flatten([n \in DOMAIN networkCfg.Interfaces |->
        LET i == networkCfg.Interfaces[n]
            mtuString == MTUString(i.MTU)
        IN  <<File("10-br" \o i.Name \o ".netdev",
                   <<"[NetDev]", "Name=br" \o i.Name, "Kind=bridge", mtuString, "",
                     "[Bridge]", "VLANFiltering=true">>),
              File("10-" \o i.Name \o ".netdev",
                   <<"[NetDev]", "Name=" \o i.Name, "Kind=veth",
                     "MACAddress=" \o Concat(i.Hwaddr), mtuString, "",
                     "[Peer]", "Name=vt" \o i.Name>>)>>])
    \o Flatten([n \in DOMAIN networkCfg.Bonds |->
        LET b == networkCfg.Bonds[n]
            mtuString == MTUString(b.MTU)
            bondMacAddr == IF b.Hwaddr = <<>> THEN b.Members[1] ELSE b.Hwaddr
        IN  <<File("11-bn" \o b.Name \o ".netdev",
                   <<"[NetDev]", "Name=bn" \o b.Name, "Kind=bond", mtuString, "",
                     "[Bond]", "Mode=" \o b.Mode>>),
              File("11-br" \o b.Name \o ".netdev",
                   <<"[NetDev]", "Name=br" \o b.Name, "Kind=bridge", mtuString, "",
                     "[Bridge]", "VLANFiltering=true">>),
              File("11-" \o b.Name \o ".netdev",
                   <<"[NetDev]", "Name=" \o b.Name, "Kind=veth",
                     "MACAddress=" \o Concat(bondMacAddr), mtuString, "",
                     "[Peer]", "Name=vt" \o b.Name>>)>>])
    \o [n \in DOMAIN networkCfg.VLANs |->
        LET v == networkCfg.VLANs[n]
        IN  File("12-" \o v.Name \o ".netdev",
                 <<"[NetDev]", "Name=" \o v.Name, "Kind=vlan", MTUString(v.MTU), "",
                   "[VLAN]", "Id=" \o ToString(v.ID)>>)]

\* the network file of the user side of a device (interface, bond or VLAN)
UserSideContents(d, vlans, networkCfg) ==
    <<"[Match]", "Name=" \o d.Name, "", "[Link]">>
    \o generateLinkSectionContents(d.Addresses, d.RequiredForOnline)
    \o <<"", "[DHCP]", "ClientIdentifier=mac", "RouteMetric=100", "UseMTU=true", "",
         "[Network]">>
    \o generateNetworkSectionContents(d.Name, vlans, networkCfg.DNS, networkCfg.NTP)
    \o processAddresses(d.Addresses)
    \o (IF Len(d.Routes) > 0 THEN processRoutes(d.Routes) ELSE <<>>)

generateNetworkFileContents(networkCfg) ==
    Flatten([n \in DOMAIN networkCfg.Interfaces |->
        LET i == networkCfg.Interfaces[n]
            strippedHwaddr == StrippedHwaddr(i.Hwaddr)
            bridgeVLAN == generateBridgeVLANContents(i.Name, i.VLAN, i.VLANTags,
                                                     networkCfg.VLANs)
        IN  <<File("20-" \o i.Name \o ".network",
                   UserSideContents(i, networkCfg.VLANs, networkCfg)),
              File("20-vt" \o i.Name \o ".network",
                   <<"[Match]", "Name=vt" \o i.Name, "", "[Network]",
                     "Bridge=br" \o i.Name>> \o bridgeVLAN),
              File("20-en" \o strippedHwaddr \o ".network",
                   <<"[Match]", "Name=en" \o strippedHwaddr, "", "[Network]",
                     "LLDP=" \o FormatBool(i.LLDP), "EmitLLDP=" \o FormatBool(i.LLDP),
                     "Bridge=br" \o i.Name>> \o bridgeVLAN),
              File("20-br" \o i.Name \o ".network",
                   <<"[Match]", "Name=br" \o i.Name, "", "[Network]",
                     "LinkLocalAddressing=no", "ConfigureWithoutCarrier=yes">>)>>])
    \o Flatten([n \in DOMAIN networkCfg.Bonds |->
        LET b == networkCfg.Bonds[n]
            bridgeVLAN == generateBridgeVLANContents(b.Name, b.VLAN, b.VLANTags,
                                                     networkCfg.VLANs)
        IN  <<File("21-" \o b.Name \o ".network",
                   UserSideContents(b, networkCfg.VLANs, networkCfg)),
              File("21-vt" \o b.Name \o ".network",
                   <<"[Match]", "Name=vt" \o b.Name, "", "[Network]",
                     "Bridge=br" \o b.Name>> \o bridgeVLAN),
              File("21-bn" \o b.Name \o ".network",
                   <<"[Match]", "Name=bn" \o b.Name, "", "[Network]",
                     "LinkLocalAddressing=no", "ConfigureWithoutCarrier=yes",
                     "Bridge=br" \o b.Name>> \o bridgeVLAN),
              File("21-br" \o b.Name \o ".network",
                   <<"[Match]", "Name=br" \o b.Name, "", "[Network]",
                     "LinkLocalAddressing=no", "ConfigureWithoutCarrier=yes">>)>>
            \o [m \in DOMAIN b.Members |->
                  File("21-bn" \o b.Name \o "-dev" \o ToString(m - 1) \o ".network",
                       <<"[Match]", "Name=en" \o StrippedHwaddr(b.Members[m]), "",
                         "[Network]", "LLDP=" \o FormatBool(b.LLDP),
                         "EmitLLDP=" \o FormatBool(b.LLDP), "Bond=bn" \o b.Name>>)]])
    \o [n \in DOMAIN networkCfg.VLANs |->
        File("22-" \o networkCfg.VLANs[n].Name \o ".network",
             UserSideContents(networkCfg.VLANs[n], <<>>, networkCfg))]

\* the files generateNetworkConfiguration writes to the directory, in order
Artifacts(networkCfg) ==
    generateLinkFileContents(networkCfg)
    \o generateNetdevFileContents(networkCfg)
    \o generateNetworkFileContents(networkCfg)

\* the files of every configuration that passes validation, computed once
GeneratedFiles == [networkCfg \in {Config(c) : c \in ValidConfigs} |-> Artifacts(networkCfg)]

----------------------------------------------------------------------------
(* Validation *)

DeviceNames(networkCfg) ==
    [i \in DOMAIN networkCfg.Interfaces |-> networkCfg.Interfaces[i].Name]
    \o [i \in DOMAIN networkCfg.Bonds |-> networkCfg.Bonds[i].Name]
    \o [i \in DOMAIN networkCfg.VLANs |-> networkCfg.VLANs[i].Name]

Unique(s) == \A i, j \in DOMAIN s : s[i] = s[j] => i = j

validateInterfaces(interfaces, vlans) ==
    IF \E i \in DOMAIN interfaces : interfaces[i].Name = "" \/ interfaces[i].Hwaddr = <<>>
    THEN "invalid interface" ELSE ""

validateBonds(bonds, vlans) ==
    IF \E i \in DOMAIN bonds : bonds[i].Name = "" \/ Len(bonds[i].Members) = 0
    THEN "invalid bond" ELSE ""

validateVLANs(networkCfg) ==
    IF \E v \in DOMAIN networkCfg.VLANs :
         ~ \E d \in Range(networkCfg.Interfaces) \cup Range(networkCfg.Bonds) :
               d.Name = networkCfg.VLANs[v].Parent
    THEN "invalid VLAN parent"
    ELSE IF ~Unique(DeviceNames(networkCfg)) THEN "duplicate device name"
    ELSE ""

ValidateNetworkConfiguration(networkCfg) ==
    IF networkCfg = NilCfg THEN "no network configuration provided"
    ELSE IF validateInterfaces(networkCfg.Interfaces, networkCfg.VLANs) # ""
    THEN validateInterfaces(networkCfg.Interfaces, networkCfg.VLANs)
    ELSE IF validateBonds(networkCfg.Bonds, networkCfg.VLANs) # ""
    THEN validateBonds(networkCfg.Bonds, networkCfg.VLANs)
    ELSE validateVLANs(networkCfg)

----------------------------------------------------------------------------
(* generateNetworkConfiguration *)

EmptyDir == [n \in {} |-> <<>>]

\* os.WriteFile into the directory d: the file is created or replaced
WriteFile(d, file) == (file.Name :> file.Contents) @@ d

RECURSIVE WriteFiles(_, _)
\* the three write loops: files written one after the other
WriteFiles(d, files) ==
    IF files = <<>> THEN d ELSE WriteFiles(WriteFile(d, Head(files)), Tail(files))

\* the time-sync contents of the config, <<>> when there is none to write
NtpCfg(networkCfg) ==
    IF networkCfg.NTP # None THEN generateTimesyncContents(networkCfg.NTP[1]) ELSE <<>>

\* the points where generateNetworkConfiguration can fail: 0 is no failure,
\* 1 os.RemoveAll, 2 os.Mkdir, 2+k the k-th os.WriteFile into the directory,
\* and n+3 the os.WriteFile of the time-sync file, n being the number of files
FailPoints(networkCfg) ==
    LET n == Len(GeneratedFiles[networkCfg])
    IN  {0, 1, 2}
        \cup {2 + k : k \in {j \in 1 .. n : j <= MaxFailedWrite}}
        \cup (IF NtpCfg(networkCfg) # <<>> THEN {n + 3} ELSE {})

\* mutant: the directory is not removed first
RegenerateDir_NoRemoveAll(d, files) == WriteFiles(d, files)

\* os.RemoveAll and os.Mkdir, then the write loops, over the directory d
RegenerateDir(d, files) == WriteFiles(EmptyDir, files)

\* mutant: the old file is removed only when the config has no NTP section
UpdateTimesync_OnlyWithoutSection(networkCfg, ts) ==
    LET ntpCfg == NtpCfg(networkCfg)
        written == IF networkCfg.NTP # None /\ ntpCfg # <<>> THEN <<ntpCfg>> ELSE ts
    IN  IF networkCfg.NTP = None THEN <<>> ELSE written

\* the time-sync file after the last part of generateNetworkConfiguration, when
\* its os.WriteFile does not fail: written if there are time servers, else removed
UpdateTimesync(networkCfg, ts) ==
    LET ntpCfg == NtpCfg(networkCfg)
        written == IF networkCfg.NTP # None /\ ntpCfg # <<>> THEN <<ntpCfg>> ELSE ts
    IN  IF networkCfg.NTP = None \/ ntpCfg = <<>> THEN <<>> ELSE written

\* generateNetworkConfiguration failing at failAt, from directory state (de, d) and
\* time-sync file ts: the error returned and the files left behind
generateNetworkConfiguration(networkCfg, failAt, de, d, ts) ==
    LET files == GeneratedFiles[networkCfg]
        n == Len(files)
    IN  IF failAt = 1
        THEN [err |-> "RemoveAll failed", dirExists |-> de, dir |-> d, timesyncFile |-> ts]
        ELSE IF failAt = 2
        THEN [err |-> "Mkdir failed", dirExists |-> FALSE, dir |-> EmptyDir,
              timesyncFile |-> ts]
        ELSE IF failAt \in 3 .. (n + 2)
        THEN [err |-> "WriteFile failed", dirExists |-> TRUE,
              dir |-> RegenerateDir(d, SubSeq(files, 1, failAt - 3)),
              timesyncFile |-> ts]
        ELSE IF failAt = n + 3
        THEN [err |-> "WriteFile failed", dirExists |-> TRUE,
              dir |-> RegenerateDir(d, files), timesyncFile |-> ts]
        ELSE [err |-> "", dirExists |-> TRUE, dir |-> RegenerateDir(d, files),
              timesyncFile |-> UpdateTimesync(networkCfg, ts)]

----------------------------------------------------------------------------
(* The polling loops' helpers *)

\* whether subprocess.RunCommandContext can succeed: not once ctx is cancelled
CommandOutcomes == IF ctxCancelled THEN {FALSE} ELSE BOOLEAN

Chars169 == <<"1","6","9",".","2","5","4",".">>
CharsFe80 == <<"f","e","8","0",":">>
\* 169.254.7.7, fe80::1, 10.0.0.5 and 2001:db8::5 as sequences of characters
AddrLL4 == Chars169 \o <<"7",".","7">>
AddrLL6 == CharsFe80 \o <<":","1">>
AddrV4 == <<"1","0",".","0",".","0",".","5">>
AddrV6 == <<"2","0","0","1",":","d","b","8",":",":","5">>

\* strings.HasPrefix
HasPrefix(str, prefix) ==
    Len(str) >= Len(prefix) /\ SubSeq(str, 1, Len(prefix)) = prefix

\* what `networkctl status name` can print, or fail
StatusOutputs(name) ==
    {[err |-> TRUE, OnlineState |-> "", RequiredForOnline |-> ""]}
    \cup (IF ctxCancelled THEN {}
          ELSE {[err |-> FALSE, OnlineState |-> o, RequiredForOnline |-> r] :
                   o \in (IF name = stuck THEN {"offline"} ELSE {"online", "offline"}),
                   r \in (IF name = stuck THEN {"yes"} ELSE {"yes", "no"})})

\* the addresses `ip address show name` can print, or fail
IPOutputs ==
    {[err |-> TRUE, addrs |-> <<>>]}
    \cup (IF ctxCancelled THEN {}
          ELSE {[err |-> FALSE, addrs |-> a] :
                   a \in {<<>>, <<AddrLL4, AddrLL6>>, <<AddrLL6, AddrV4>>, <<AddrV6>>}})

\* mutant: a failed status query reports the device as not required
isOnline_ErrorNotRequired(output) ==
    IF output.err THEN <<FALSE, FALSE>>
    ELSE <<output.OnlineState = "online", output.RequiredForOnline = "yes">>

\* <<online, requiredOnline>>
isOnline(output) ==
    IF output.err THEN <<FALSE, TRUE>>
    ELSE <<output.OnlineState = "online", output.RequiredForOnline = "yes">>

hasAtLeastOneConfiguredIP(output) ==
    IF output.err THEN FALSE
    ELSE LET counted == {i \in DOMAIN output.addrs :
                            ~(HasPrefix(output.addrs[i], Chars169)
                              \/ HasPrefix(output.addrs[i], CharsFe80))}
         IN  Cardinality(counted) > 0

RECURSIVE NamesWithAddresses(_)
NamesWithAddresses(devices) ==
    IF devices = <<>> THEN <<>>
    ELSE (IF Len(Head(devices).Addresses) = 0 THEN <<>> ELSE <<Head(devices).Name>>)
         \o NamesWithAddresses(Tail(devices))

\* devicesToCheck of waitForNetworkOnline
devicesToCheck(networkCfg) ==
    NamesWithAddresses(networkCfg.Interfaces)
    \o NamesWithAddresses(networkCfg.Bonds)
    \o NamesWithAddresses(networkCfg.VLANs)

----------------------------------------------------------------------------
(* Time *)

\* mutant: the deadline is counted from the start of the call (time 0)
Deadline_FromCallStart(t, d) == d

\* time.Now().Add(timeout)
Deadline(t, d) == t + d

\* t.After(end)
After(t, end) == t > end

\* no call's clock gets this far: the latest rename wait ends a Sleep after
\* MaxTime + RenameTimeout, and the online wait that follows a Sleep after its own
\* deadline
ClockCap == MaxTime + RenameTimeout + MaxTimeout + 3 * SleepTicks

\* the clock after time.Sleep(500 * time.Millisecond)
Slept(t) == IF t + SleepTicks <= ClockCap THEN t + SleepTicks ELSE ClockCap

----------------------------------------------------------------------------
(* The state machine *)

NothingOnDisk == [timesync |-> FALSE, otherFiles |-> FALSE]

Running == pc \notin {"idle", "returned"}

Init ==
    /\ pc = "idle"
    /\ caller = ""
    /\ cfg = "nil"
    /\ timeout = 0
    /\ now = 0
    /\ endTime = 0
    /\ idx = 0
    /\ result = ""
    /\ ctxCancelled = FALSE
    /\ hostname = ""
    /\ environment = ""
    /\ dirExists = FALSE
    /\ dir = EmptyDir
    /\ timesyncFile = <<>>
    /\ restarted = <<>>
    /\ trace = <<>>
    /\ obs = <<>>
    /\ stuck = ""
    /\ passes = 0
    /\ cancelPasses = 0
    /\ onlineStart = 0
    /\ onDisk = NothingOnDisk
    /\ fn = ""
    /\ args = <<>>
    /\ ret = <<>>
    /\ TriggerShutdown = "open"
    /\ TriggerReboot = "open"
    /\ handlers = <<>>
    /\ responses = <<>>

System == <<hostname, environment, dirExists, dir, timesyncFile>>

\* a call begins
Begin(who, c, t) ==
    /\ pc = "idle"
    /\ caller' = who
    /\ cfg' = c
    /\ timeout' = t
    /\ now' = 0
    /\ endTime' = 0
    /\ idx' = 0
    /\ result' = ""
    /\ ctxCancelled' = FALSE
    /\ restarted' = <<>>
    /\ trace' = <<>>
    /\ obs' = <<>>
    /\ stuck' = ""
    /\ passes' = 0
    /\ cancelPasses' = 0
    /\ onlineStart' = 0
    /\ onDisk' = NothingOnDisk
    /\ UNCHANGED System
    /\ UNCHANGED <<Pure, Control>>

\* a caller invokes ApplyNetworkConfiguration(ctx, c, t)
CallApply(c, t) ==
    /\ Begin("Apply", c, t)
    /\ pc' = "validate"

\* waitForUdevInterfaceRename(ctx, t) called on its own
CallRename(t) ==
    /\ Begin("rename", "nil", t)
    /\ pc' = "rename_enter"

\* waitForNetworkOnline(ctx, c, t) called on its own
CallOnline(c, t) ==
    /\ Begin("online", c, t)
    /\ pc' = "online_enter"

\* the step of ApplyNetworkConfiguration named step returned err (history)
Logged(step, err) == Append(trace, [step |-> step, err |-> err])

\* ApplyNetworkConfiguration returns err ("ok" for nil)
Return(err) ==
    /\ pc' = "returned"
    /\ result' = IF err = "" THEN "ok" ELSE err

Frame == <<caller, cfg, timeout>>
Loop == <<endTime, idx, obs, stuck, passes, cancelPasses, onlineStart>>

Validate ==
    /\ pc = "validate"
    /\ LET err == ValidateNetworkConfiguration(Config(cfg))
       IN  /\ trace' = Logged("validate", err)
           /\ IF err # ""
              THEN Return(err)
              ELSE pc' = "hostname" /\ result' = result
    /\ UNCHANGED <<Frame, Loop, System, now, ctxCancelled, restarted, onDisk>>
    /\ UNCHANGED <<Pure, Control>>

\* the hostname computed from the DNS section
Hostname(networkCfg) ==
    IF networkCfg.DNS # None /\ networkCfg.DNS[1].Hostname # ""
    THEN networkCfg.DNS[1].Hostname
         \o (IF networkCfg.DNS[1].Domain # "" THEN "." \o networkCfg.DNS[1].Domain ELSE "")
    ELSE ""

SetHostname ==
    /\ pc = "hostname"
    /\ \E ok \in CommandOutcomes :
          IF ok
          THEN /\ hostname' = Hostname(Config(cfg))
               /\ trace' = Logged("hostname", "")
               /\ pc' = "proxy"
               /\ result' = result
          ELSE /\ hostname' = hostname
               /\ trace' = Logged("hostname", "SetHostname failed")
               /\ Return("SetHostname failed")
    /\ UNCHANGED <<Frame, Loop, environment, dirExists, dir, timesyncFile, now,
                   ctxCancelled, restarted, onDisk>>
    /\ UNCHANGED <<Pure, Control>>

\* mutant: the error of UpdateEnvironment is dropped and the call goes on
UpdateEnvironment_ErrorDropped ==
    /\ pc = "proxy"
    /\ \E ok \in BOOLEAN :
          /\ environment' = IF ok THEN Config(cfg).Proxy ELSE environment
          /\ trace' = Logged("proxy", IF ok THEN "" ELSE "UpdateEnvironment failed")
          /\ pc' = "generate"
          /\ result' = result
    /\ UNCHANGED <<Frame, Loop, hostname, dirExists, dir, timesyncFile, now,
                   ctxCancelled, restarted, onDisk>>
    /\ UNCHANGED <<Pure, Control>>

UpdateEnvironment ==
    /\ pc = "proxy"
    /\ \E ok \in BOOLEAN :
          IF ok
          THEN /\ environment' = Config(cfg).Proxy
               /\ trace' = Logged("proxy", "")
               /\ pc' = "generate"
               /\ result' = result
          ELSE /\ environment' = environment
               /\ trace' = Logged("proxy", "UpdateEnvironment failed")
               /\ Return("UpdateEnvironment failed")
    /\ UNCHANGED <<Frame, Loop, hostname, dirExists, dir, timesyncFile, now,
                   ctxCancelled, restarted, onDisk>>
    /\ UNCHANGED <<Pure, Control>>

Generate ==
    /\ pc = "generate"
    /\ \E failAt \in FailPoints(Config(cfg)) :
          \E r \in {generateNetworkConfiguration(Config(cfg), failAt, dirExists, dir,
                                                  timesyncFile)} :
              /\ dirExists' = r.dirExists
              /\ dir' = r.dir
              /\ timesyncFile' = r.timesyncFile
              /\ trace' = Logged("generate", r.err)
              /\ onDisk' = [timesync |-> timesyncFile # <<>>,
                            otherFiles |->
                                \E n \in DOMAIN dir :
                                    n \notin {f.Name : f \in Range(GeneratedFiles[Config(cfg)])}]
              /\ IF r.err # ""
                 THEN Return(r.err)
                 ELSE pc' = "rename_enter" /\ result' = result
    /\ UNCHANGED <<Frame, Loop, hostname, environment, now, ctxCancelled, restarted>>
    /\ UNCHANGED <<Pure, Control>>

(* waitForUdevInterfaceRename *)

\* the loop returns err to its caller: ApplyNetworkConfiguration goes on to
\* restart systemd-networkd when err is nil and returns err otherwise
RenameReturns(err) ==
    IF caller = "Apply"
    THEN /\ trace' = Logged("rename", err)
         /\ IF err # ""
            THEN Return(err)
            ELSE pc' = "networkd" /\ result' = result
    ELSE /\ trace' = trace
         /\ Return(err)

RenameEnter ==
    /\ pc = "rename_enter"
    /\ endTime' = Deadline(now, IF caller = "Apply" THEN RenameTimeout ELSE timeout)
    /\ passes' = 0
    /\ pc' = "rename_check"
    /\ UNCHANGED <<Frame, System, idx, obs, stuck, cancelPasses, onlineStart, now,
                   result, ctxCancelled, restarted, trace, onDisk>>
    /\ UNCHANGED <<Pure, Control>>

RenameCheck ==
    /\ pc = "rename_check"
    /\ IF After(now, endTime)
       THEN /\ RenameReturns("timed out waiting for udev to rename interface(s)")
            /\ UNCHANGED <<passes, cancelPasses>>
       ELSE /\ pc' = "rename_trigger"
            /\ passes' = passes + 1
            /\ cancelPasses' = cancelPasses + (IF ctxCancelled THEN 1 ELSE 0)
            /\ UNCHANGED <<result, trace>>
    /\ UNCHANGED <<Frame, System, endTime, idx, obs, stuck, onlineStart, now,
                   ctxCancelled, restarted, onDisk>>
    /\ UNCHANGED <<Pure, Control>>

\* udevadm trigger --action=add
RenameTrigger ==
    /\ pc = "rename_trigger"
    /\ \E ok \in CommandOutcomes :
          IF ok
          THEN pc' = "rename_settle" /\ UNCHANGED <<result, trace>>
          ELSE RenameReturns("udevadm trigger failed")
    /\ UNCHANGED <<Frame, Loop, System, now, ctxCancelled, restarted, onDisk>>
    /\ UNCHANGED <<Pure, Control>>

\* udevadm settle
RenameSettle ==
    /\ pc = "rename_settle"
    /\ \E ok \in CommandOutcomes :
          IF ok
          THEN pc' = "rename_journal" /\ UNCHANGED <<result, trace>>
          ELSE RenameReturns("udevadm settle failed")
    /\ UNCHANGED <<Frame, Loop, System, now, ctxCancelled, restarted, onDisk>>
    /\ UNCHANGED <<Pure, Control>>

\* journalctl -b -t kernel -g ...: err is nil iff a rename is in the kernel log
RenameJournal ==
    /\ pc = "rename_journal"
    /\ \E renamed \in CommandOutcomes :
          IF renamed
          THEN RenameReturns("")
          ELSE pc' = "rename_sleep" /\ UNCHANGED <<result, trace>>
    /\ UNCHANGED <<Frame, Loop, System, now, ctxCancelled, restarted, onDisk>>
    /\ UNCHANGED <<Pure, Control>>

\* time.Sleep(500 * time.Millisecond)
RenameSleep ==
    /\ pc = "rename_sleep"
    /\ now' = Slept(now)
    /\ pc' = "rename_check"
    /\ UNCHANGED <<Frame, Loop, System, result, ctxCancelled, restarted, trace, onDisk>>
    /\ UNCHANGED <<Pure, Control>>

(* RestartUnit *)

RestartUnit(at, unit, step, next) ==
    /\ pc = at
    /\ \E ok \in CommandOutcomes :
          IF ok
          THEN /\ restarted' = Append(restarted, unit)
               /\ trace' = Logged(step, "")
               /\ pc' = next
               /\ result' = result
          ELSE /\ restarted' = restarted
               /\ trace' = Logged(step, "RestartUnit failed")
               /\ Return("RestartUnit failed")
    /\ UNCHANGED <<Frame, Loop, System, now, ctxCancelled, onDisk>>
    /\ UNCHANGED <<Pure, Control>>

\* mutant: systemd-networkd is restarted where the rename wait should begin
RestartNetworkd_BeforeRename ==
    RestartUnit("rename_enter", "systemd-networkd", "networkd", "timesyncd")

RestartNetworkd == RestartUnit("networkd", "systemd-networkd", "networkd", "timesyncd")

RestartTimesyncd == RestartUnit("timesyncd", "systemd-timesyncd", "timesyncd", "online_enter")

(* waitForNetworkOnline *)

\* the loop returns err, and so does ApplyNetworkConfiguration
OnlineReturns(err) ==
    /\ trace' = IF caller = "Apply" THEN Logged("online", err) ELSE trace
    /\ Return(err)

\* a device of the check set that will never report online, if any (history)
StuckChoices(networkCfg) == {""} \cup Range(devicesToCheck(networkCfg))

OnlineEnter ==
    /\ pc = "online_enter"
    /\ endTime' = Deadline(now, timeout)
    /\ onlineStart' = now
    /\ passes' = 0
    /\ stuck' \in StuckChoices(Config(cfg))
    /\ pc' = "online_check"
    /\ UNCHANGED <<Frame, System, idx, obs, cancelPasses, now, result, ctxCancelled,
                   restarted, trace, onDisk>>
    /\ UNCHANGED <<Pure, Control>>

\* mutant: past the deadline the loop sleeps and checks again instead of returning
OnlineCheck_NoReturn ==
    /\ pc = "online_check"
    /\ IF After(now, endTime)
       THEN /\ pc' = "online_sleep"
            /\ UNCHANGED <<idx, obs, passes, cancelPasses, result, trace>>
       ELSE /\ pc' = "online_status"
            /\ idx' = 1
            /\ obs' = <<>>
            /\ passes' = passes + 1
            /\ cancelPasses' = cancelPasses + (IF ctxCancelled THEN 1 ELSE 0)
            /\ UNCHANGED <<result, trace>>
    /\ UNCHANGED <<Frame, System, endTime, stuck, onlineStart, now, ctxCancelled,
                   restarted, onDisk>>
    /\ UNCHANGED <<Pure, Control>>

OnlineCheck ==
    /\ pc = "online_check"
    /\ IF After(now, endTime)
       THEN /\ OnlineReturns("timed out waiting for network to come online")
            /\ UNCHANGED <<idx, obs, passes, cancelPasses>>
       ELSE /\ pc' = "online_status"
            /\ idx' = 1
            /\ obs' = <<>>
            /\ passes' = passes + 1
            /\ cancelPasses' = cancelPasses + (IF ctxCancelled THEN 1 ELSE 0)
            /\ UNCHANGED <<result, trace>>
    /\ UNCHANGED <<Frame, System, endTime, stuck, onlineStart, now, ctxCancelled,
                   restarted, onDisk>>
    /\ UNCHANGED <<Pure, Control>>

\* one turn of the loop over devicesToCheck, up to the call of
\* hasAtLeastOneConfiguredIP; past the last device the pass has found all online
OnlineStatus ==
    /\ pc = "online_status"
    /\ IF idx > Len(devicesToCheck(Config(cfg)))
       THEN /\ OnlineReturns("")
            /\ UNCHANGED <<idx, obs>>
       ELSE \E output \in StatusOutputs(devicesToCheck(Config(cfg))[idx]) :
               LET online == isOnline(output)[1]
                   requiredOnline == isOnline(output)[2]
               IN  /\ obs' = Append(obs, [name |-> devicesToCheck(Config(cfg))[idx],
                                          status |-> output, ip |-> <<>>])
                   /\ IF ~requiredOnline
                      THEN idx' = idx + 1 /\ pc' = "online_status"
                      ELSE IF ~online
                      THEN idx' = idx /\ pc' = "online_sleep"
                      ELSE idx' = idx /\ pc' = "online_ip"
                   /\ UNCHANGED <<result, trace>>
    /\ UNCHANGED <<Frame, System, endTime, stuck, passes, cancelPasses, onlineStart,
                   now, ctxCancelled, restarted, onDisk>>
    /\ UNCHANGED <<Pure, Control>>

\* hasAtLeastOneConfiguredIP(name) for a device that is required and online
OnlineIP ==
    /\ pc = "online_ip"
    /\ \E output \in IPOutputs :
          /\ obs' = [obs EXCEPT ![Len(obs)].ip = <<output>>]
          /\ IF hasAtLeastOneConfiguredIP(output)
             THEN idx' = idx + 1 /\ pc' = "online_status"
             ELSE idx' = idx /\ pc' = "online_sleep"
    /\ UNCHANGED <<Frame, System, endTime, stuck, passes, cancelPasses, onlineStart,
                   now, result, ctxCancelled, restarted, trace, onDisk>>
    /\ UNCHANGED <<Pure, Control>>

\* mutant: a pass that finds a device not online gives up at once
OnlineSleep_GiveUp ==
    /\ pc = "online_sleep"
    /\ OnlineReturns("timed out waiting for network to come online")
    /\ UNCHANGED <<Frame, Loop, System, now, ctxCancelled, restarted, onDisk>>
    /\ UNCHANGED <<Pure, Control>>

\* time.Sleep(500 * time.Millisecond)
OnlineSleep ==
    /\ pc = "online_sleep"
    /\ now' = Slept(now)
    /\ pc' = "online_check"
    /\ UNCHANGED <<Frame, Loop, System, result, ctxCancelled, restarted, trace, onDisk>>
    /\ UNCHANGED <<Pure, Control>>

(* The environment *)

\* the caller has read the result: the locals and the history of the call are dropped
Finish ==
    /\ pc = "returned"
    /\ pc' = "idle"
    /\ caller' = ""
    /\ cfg' = "nil"
    /\ timeout' = 0
    /\ now' = 0
    /\ endTime' = 0
    /\ idx' = 0
    /\ result' = ""
    /\ ctxCancelled' = FALSE
    /\ restarted' = <<>>
    /\ trace' = <<>>
    /\ obs' = <<>>
    /\ stuck' = ""
    /\ passes' = 0
    /\ cancelPasses' = 0
    /\ onlineStart' = 0
    /\ onDisk' = NothingOnDisk
    /\ UNCHANGED System
    /\ UNCHANGED <<Pure, Control>>

\* ctx is cancelled while the call runs
Cancel ==
    /\ Running
    /\ ~ctxCancelled
    /\ ctxCancelled' = TRUE
    /\ UNCHANGED <<pc, Frame, Loop, System, now, result, restarted, trace, onDisk>>
    /\ UNCHANGED <<Pure, Control>>

\* time passes while the call runs
Tick ==
    /\ Running
    /\ now < MaxTime
    /\ now' = now + 1
    /\ UNCHANGED <<pc, Frame, Loop, System, result, ctxCancelled, restarted, trace,
                   onDisk>>
    /\ UNCHANGED <<Pure, Control>>

Step ==
    \/ Validate \/ SetHostname \/ UpdateEnvironment \/ Generate
    \/ RenameEnter \/ RenameCheck \/ RenameTrigger \/ RenameSettle \/ RenameJournal
    \/ RenameSleep
    \/ RestartNetworkd \/ RestartTimesyncd
    \/ OnlineEnter \/ OnlineCheck \/ OnlineStatus \/ OnlineIP \/ OnlineSleep

Next ==
    \/ \E c \in Configs, t \in Timeouts : CallApply(c, t)
    \/ Step
    \/ Finish
    \/ Cancel
    \/ Tick

Spec == Init /\ [][Next]_vars

\* the two polling loops called on their own, with any timeout
RenameStep ==
    \/ RenameEnter \/ RenameCheck \/ RenameTrigger \/ RenameSettle \/ RenameJournal
    \/ RenameSleep

OnlineStep ==
    \/ OnlineEnter \/ OnlineCheck \/ OnlineStatus \/ OnlineIP \/ OnlineSleep

NextPoll ==
    \/ \E t \in Timeouts : CallRename(t)
    \/ \E c \in ValidConfigs, t \in Timeouts : CallOnline(c, t)
    \/ RenameStep
    \/ OnlineStep
    \/ Finish
    \/ Cancel
    \/ Tick

SpecPoll == Init /\ [][NextPoll]_vars

\* the goroutine that runs the call keeps running
FairSpec == Spec /\ WF_vars(Step)

----------------------------------------------------------------------------
(* The generator's functions called on their own, with any arguments *)

\* the longest additionalVLANTags list
MaxTags == 2
\* the longest list of declared VLANs passed to generateBridgeVLANContents
MaxVLANs == 2

\* the sequences over S of length at most n
SeqsUpTo(S, n) == UNION {[1 .. k -> S] : k \in 0 .. n}

TagChoices == {10, 20, 30}

Vlan(name, id, parent, addrs, rfo) ==
    [Name |-> name, ID |-> id, Parent |-> parent, MTU |-> 0, Addresses |-> addrs,
     Routes |-> <<>>, RequiredForOnline |-> rfo]

\* declared VLANs on two parents, with IDs that meet and miss the trunk tags
VLANChoices ==
    {Vlan("vlan" \o ToString(id), id, parent, <<>>, "") :
        id \in {10, 30}, parent \in {"eth0", "bond0"}}

\* the arguments of generateBridgeVLANContents
BridgeVLANInputs ==
    {<<bridgeName, specificVLAN, additionalVLANTags, vlans>> :
        bridgeName \in {"eth0", "bond0"},
        specificVLAN \in {0, 10, 20},
        additionalVLANTags \in SeqsUpTo(TagChoices, MaxTags),
        vlans \in SeqsUpTo(VLANChoices, MaxVLANs)}

InitEngine ==
    /\ pc = "idle"
    /\ caller = ""
    /\ cfg = "nil"
    /\ timeout = 0
    /\ now = 0
    /\ endTime = 0
    /\ idx = 0
    /\ result = ""
    /\ ctxCancelled = FALSE
    /\ hostname = ""
    /\ environment = ""
    /\ dirExists = FALSE
    /\ dir = EmptyDir
    /\ timesyncFile = <<>>
    /\ restarted = <<>>
    /\ trace = <<>>
    /\ obs = <<>>
    /\ stuck = ""
    /\ passes = 0
    /\ cancelPasses = 0
    /\ onlineStart = 0
    /\ onDisk = NothingOnDisk

InitControl ==
    /\ TriggerShutdown = "open"
    /\ TriggerReboot = "open"
    /\ handlers = <<>>
    /\ responses = <<>>

\* the function fn called with args returns value
Returns(name, value) ==
    /\ fn = name
    /\ ret = <<>>
    /\ ret' = <<value>>
    /\ UNCHANGED <<fn, args, Engine, Control>>

CallBridgeVLAN ==
    Returns("generateBridgeVLANContents",
            generateBridgeVLANContents(args[1], args[2], args[3], args[4]))

\* the longest address list passed to processAddresses and
\* generateLinkSectionContents
MaxAddresses == 3
\* the most interfaces of a configuration passed to the generators
MaxInterfaces == 2

AddressTokens == {"dhcp4", "dhcp6", "slaac", "10.0.0.5/24", "2001:db8::5/64"}

\* the required-for-online policies: unset, "no", and explicit families
Policies == {"", "no", "ipv4", "ipv6", "both"}

\* the arguments of processAddresses
AddressInputs == {<<addresses>> : addresses \in SeqsUpTo(AddressTokens, MaxAddresses)}

\* the arguments of generateLinkSectionContents
LinkSectionInputs ==
    {<<addresses, requiredForOnline>> :
        addresses \in SeqsUpTo(AddressTokens, MaxAddresses),
        requiredForOnline \in Policies}

Mac3 == <<"a","a",":","b","b",":","c","c",":","d","d",":","e","e",":","0","3">>

\* interfaces whose names are plain, or spelled like the bridge of another
\* interface or like the renamed form of a hardware address
InterfaceChoices ==
    {Iface(name, hw, p[1], 0, <<>>, p[2]) :
        name \in {"eth0", "breth0", "en" \o StrippedHwaddr(Mac2)},
        hw \in {Mac1, Mac2},
        p \in {<< <<>>, "" >>, << <<"10.0.0.5/24">>, "ipv4" >>}}

BondChoices ==
    {<<>>,
     <<[Name |-> "bond0", Hwaddr |-> <<>>, Members |-> <<Mac3>>,
        Mode |-> "active-backup", MTU |-> 0, Addresses |-> <<"dhcp4">>,
        Routes |-> <<>>, VLAN |-> 0, VLANTags |-> <<>>, LLDP |-> FALSE,
        RequiredForOnline |-> ""]>>}

VLANListChoices ==
    {<<>>, <<Vlan("vlan10", 10, "eth0", <<"dhcp4">>, "")>>,
     <<Vlan("vlan30", 30, "eth0", <<>>, "")>>}

\* the configurations passed to the three generators
GeneratorInputs ==
    {<<[Interfaces |-> interfaces, Bonds |-> bonds, VLANs |-> vlans,
        DNS |-> None, NTP |-> None, Proxy |-> ""]>> :
        interfaces \in SeqsUpTo(InterfaceChoices, MaxInterfaces),
        bonds \in BondChoices,
        vlans \in VLANListChoices}

CallProcessAddresses == Returns("processAddresses", processAddresses(args[1]))

CallLinkSection ==
    Returns("generateLinkSectionContents",
            generateLinkSectionContents(args[1], args[2]))

\* generateLinkFileContents, generateNetdevFileContents and
\* generateNetworkFileContents, as generateNetworkConfiguration calls them
CallGenerators == Returns("generators", Artifacts(args[1]))

InitFn ==
    /\ InitEngine
    /\ InitControl
    /\ ret = <<>>
    /\ \/ fn = "generateBridgeVLANContents" /\ args \in BridgeVLANInputs
       \/ fn = "processAddresses" /\ args \in AddressInputs
       \/ fn = "generateLinkSectionContents" /\ args \in LinkSectionInputs
       \/ fn = "generators" /\ args \in GeneratorInputs

NextFn ==
    \/ CallBridgeVLAN
    \/ CallProcessAddresses
    \/ CallLinkSection
    \/ CallGenerators

SpecFn == InitFn /\ [][NextFn]_vars

----------------------------------------------------------------------------
(* apiSystem: the system action endpoint *)

\* the most requests the endpoint receives
MaxRequests == 3

Methods == {"PUT", "GET"}

\* what json.Decode makes of a request body: an error, or the action it holds
Bodies ==
    {[err |-> TRUE, Action |-> ""]}
    \cup {[err |-> FALSE, Action |-> a] :
             a \in {"shutdown", "poweroff", "reboot", "restart", ""}}

\* a request is answered: with a response, or with the panic of its handler
Answer(method, action, response, fired) ==
    responses' = Append(responses, [method |-> method, action |-> action,
                                    response |-> response, fired |-> fired])

\* apiSystem up to the switch: the method check and the decoding of the body
Receive(method, body) ==
    /\ Len(responses) + Len(handlers) < MaxRequests
    /\ IF method # "PUT"
       THEN Answer(method, "", "NotImplemented", "") /\ handlers' = handlers
       ELSE IF body.err
       THEN Answer(method, "", "InternalError", "") /\ handlers' = handlers
       ELSE handlers' = Append(handlers, body.Action) /\ responses' = responses
    /\ UNCHANGED <<TriggerShutdown, TriggerReboot, Engine, Pure>>

\* close(ch) on a channel in state ch: a closed channel makes the handler panic
Close(ch) == IF ch = "open" THEN "closed" ELSE "panic"

\* the handlers without the i-th
Without(i) == SubSeq(handlers, 1, i - 1) \o SubSeq(handlers, i + 1, Len(handlers))

\* the switch on req.Action of the i-th handler, and its response
Switch(i) ==
    /\ i \in DOMAIN handlers
    /\ handlers' = Without(i)
    /\ CASE handlers[i] \in {"shutdown", "poweroff"} ->
              IF Close(TriggerShutdown) = "panic"
              THEN /\ Answer("PUT", handlers[i], "panic: close of closed channel", "")
                   /\ UNCHANGED <<TriggerShutdown, TriggerReboot>>
              ELSE /\ TriggerShutdown' = Close(TriggerShutdown)
                   /\ Answer("PUT", handlers[i], "EmptySyncResponse", "shutdown")
                   /\ UNCHANGED TriggerReboot
         [] handlers[i] = "reboot" ->
              IF Close(TriggerReboot) = "panic"
              THEN /\ Answer("PUT", handlers[i], "panic: close of closed channel", "")
                   /\ UNCHANGED <<TriggerShutdown, TriggerReboot>>
              ELSE /\ TriggerReboot' = Close(TriggerReboot)
                   /\ Answer("PUT", handlers[i], "EmptySyncResponse", "reboot")
                   /\ UNCHANGED TriggerShutdown
         [] OTHER ->
              /\ Answer("PUT", handlers[i], "BadRequest", "")
              /\ UNCHANGED <<TriggerShutdown, TriggerReboot>>
    /\ UNCHANGED <<Engine, Pure>>

NextControl ==
    \/ \E method \in Methods, body \in Bodies : Receive(method, body)
    \/ \E i \in 1 .. MaxRequests : Switch(i)

SpecControl == Init /\ [][NextControl]_vars

----------------------------------------------------------------------------
(* Properties *)

\* the steps of ApplyNetworkConfiguration, in the order of the source
Order == <<"validate", "hostname", "proxy", "generate", "rename", "networkd",
           "timesyncd", "online">>

RenamePCs == {"rename_enter", "rename_check", "rename_trigger", "rename_settle",
              "rename_journal", "rename_sleep"}
OnlinePCs == {"online_enter", "online_check", "online_status", "online_ip",
              "online_sleep"}

\* the step of Order the call is in at position p
StepAt(p) ==
    CASE p \in RenamePCs -> "rename"
      [] p \in OnlinePCs -> "online"
      [] OTHER -> p

\* the step of the call that has returned with number i returned nil
Succeeded(i) == Len(trace) >= i /\ trace[i].err = ""

RenameTimeoutError == "timed out waiting for udev to rename interface(s)"
OnlineTimeoutError == "timed out waiting for network to come online"

\* C1: the steps of ApplyNetworkConfiguration run in the fixed order validate,
\* hostname, proxy environment, generate, rename wait, restart of systemd-networkd,
\* restart of systemd-timesyncd, online wait, each one beginning only after the one
\* before it has returned success; systemd-networkd is restarted only after the
\* rename wait succeeded, and the online wait begins only after both restarts.
C1_FixedOrder ==
    caller = "Apply" =>
        /\ Len(trace) <= Len(Order)
        /\ \A i \in DOMAIN trace : trace[i].step = Order[i]
        /\ Running =>
              /\ Len(trace) < Len(Order)
              /\ StepAt(pc) = Order[Len(trace) + 1]
              /\ \A i \in DOMAIN trace : trace[i].err = ""
        /\ \A i \in DOMAIN restarted :
              /\ restarted[i] = <<"systemd-networkd", "systemd-timesyncd">>[i]
              /\ Succeeded(4 + i)
        /\ Len(restarted) <= 2
        /\ pc \in OnlinePCs => restarted = <<"systemd-networkd", "systemd-timesyncd">>

\* a call in its online wait, after the rename wait and both restarts
C1_Witness ==
    /\ caller = "Apply"
    /\ pc = "online_status"
    /\ Len(trace) = 7
    /\ restarted = <<"systemd-networkd", "systemd-timesyncd">>

\* the files generateNetworkConfiguration leaves for the config c when it succeeds
ExpectedDir(c) ==
    LET files == GeneratedFiles[c]
    IN  [n \in {files[i].Name : i \in DOMAIN files} |->
            LET last == CHOOSE i \in DOMAIN files :
                            /\ files[i].Name = n
                            /\ \A j \in DOMAIN files : files[j].Name = n => j <= i
            IN  files[last].Contents]

\* the state part of C2
C2_State ==
    caller = "Apply" =>
        /\ \A i \in DOMAIN trace :
              trace[i].err # "" =>
                  i = Len(trace) /\ pc = "returned" /\ result = trace[i].err
        /\ (pc = "returned" /\ result # "ok") =>
              trace # <<>> /\ trace[Len(trace)].err = result
        /\ (pc = "returned" /\ result = "ok") =>
              Len(trace) = Len(Order) /\ \A i \in DOMAIN trace : trace[i].err = ""
        /\ Succeeded(2) => hostname = Hostname(Config(cfg))
        /\ Succeeded(3) => environment = Config(cfg).Proxy
        /\ Succeeded(4) => dirExists /\ dir = ExpectedDir(Config(cfg))
        /\ Succeeded(6) => restarted[1] = "systemd-networkd"
        /\ Succeeded(7) => restarted[2] = "systemd-timesyncd"
        /\ ~Succeeded(1) => restarted = <<>> /\ onDisk = NothingOnDisk

\* C2: a step that returns an error is the last step of the call and its error is
\* what ApplyNetworkConfiguration returns; what the steps before it did stays in
\* place; a validation error is returned before anything was set, written or
\* restarted.
C2_FailFast ==
    /\ []C2_State
    /\ [][(pc = "validate" /\ pc' = "returned") => UNCHANGED <<System, restarted>>]_vars

\* the restart of systemd-networkd failed after hostname, environment and files
\* were set
C2_Witness ==
    /\ caller = "Apply"
    /\ pc = "returned"
    /\ Len(trace) = 6
    /\ result = "RestartUnit failed"
    /\ hostname = "host.example.org"
    /\ DOMAIN dir # {}

\* the devices of c with at least one configured address
CheckSet(c) ==
    {d.Name : d \in {x \in Range(c.Interfaces) \cup Range(c.Bonds) \cup Range(c.VLANs) :
                        Len(x.Addresses) >= 1}}

\* 169.254.* or fe80:*
LinkLocal(addr) ==
    \/ Len(addr) >= 8 /\ [i \in 1 .. 8 |-> addr[i]] = <<"1","6","9",".","2","5","4",".">>
    \/ Len(addr) >= 5 /\ [i \in 1 .. 5 |-> addr[i]] = <<"f","e","8","0",":">>

\* what a pass saw of a device makes it converged: the status query succeeded and
\* reports the device as not required for online, or as online while the address
\* query succeeded and shows an address that is not link-local
Converged(o) ==
    /\ ~o.status.err
    /\ \/ o.status.RequiredForOnline # "yes"
       \/ /\ o.status.OnlineState = "online"
          /\ o.ip # <<>>
          /\ ~o.ip[1].err
          /\ \E a \in Range(o.ip[1].addrs) : ~LinkLocal(a)

\* waitForNetworkOnline has returned nil
OnlineSucceeded ==
    /\ pc = "returned"
    /\ result = "ok"
    /\ caller \in {"Apply", "online"}

\* C3: waitForNetworkOnline returns success only when one pass has seen every
\* device of the check set converged; a failed query never counts as converged.
C3_OnlineOnlyWhenConverged ==
    OnlineSucceeded =>
        \A d \in CheckSet(Config(cfg)) :
            \E i \in DOMAIN obs : obs[i].name = d /\ Converged(obs[i])

\* success after a pass that saw a required device online with a global address
C3_Witness ==
    /\ OnlineSucceeded
    /\ \E i \in DOMAIN obs :
          /\ obs[i].status.RequiredForOnline = "yes"
          /\ obs[i].ip # <<>>
          /\ AddrV4 \in Range(obs[i].ip[1].addrs)

\* C4: with a device of the check set that is required and never reports online,
\* waitForNetworkOnline never returns success, and its timeout error is returned
\* only at or after its start plus the timeout.
C4_TimeoutLaw ==
    caller \in {"Apply", "online"} =>
        /\ stuck # "" => ~OnlineSucceeded
        /\ (pc = "returned" /\ result = OnlineTimeoutError) =>
              now >= onlineStart + timeout

\* the online wait timed out on a device that never came online
C4_Witness ==
    /\ pc = "returned"
    /\ result = OnlineTimeoutError
    /\ stuck # ""
    /\ passes >= 2

\* C5: a polling loop called with a timeout that is zero or negative returns its
\* timeout error without beginning a polling pass, and never returns success.
C5_ExpiredFailsAtOnce ==
    (caller \in {"rename", "online"} /\ timeout <= 0) =>
        /\ passes = 0
        /\ result # "ok"

\* C6 as stated: the deadline of the online wait of ApplyNetworkConfiguration is
\* the caller's timeout less the time the earlier steps took (the call starts at 0).
C6_RemainingBudget ==
    (caller = "Apply" /\ pc \in OnlinePCs \ {"online_enter"}) =>
        endTime - onlineStart = timeout - onlineStart

\* C6 as amended: the deadline of the online wait of ApplyNetworkConfiguration is
\* the caller's full timeout counted from the entry of the online wait, and its
\* timeout error is returned only after that deadline.
C6_FullTimeout ==
    caller = "Apply" =>
        /\ pc \in OnlinePCs \ {"online_enter"} => endTime = onlineStart + timeout
        /\ (pc = "returned" /\ result = OnlineTimeoutError) =>
              endTime = onlineStart + timeout /\ now > endTime

\* the online wait timed out later than the call's start plus the timeout
C6_Witness ==
    /\ caller = "Apply"
    /\ pc = "returned"
    /\ result = OnlineTimeoutError
    /\ onlineStart > 0
    /\ now > timeout + 1

\* C7: every call of ApplyNetworkConfiguration returns.
C7_Terminates == Running ~> (pc = "returned")

\* the rename wait gave up although the rename never showed in the kernel log
C7_Witness ==
    /\ caller = "Apply"
    /\ pc = "returned"
    /\ result = RenameTimeoutError
    /\ ~ctxCancelled

\* C8: once ctx is cancelled the call does not go on polling: at most one pass
\* begins after the cancellation, the one whose first command is aborted.
C8_CancelUnwinds == ctxCancelled => cancelPasses <= 1

\* the time servers of the config c
Timeservers(c) == IF c.NTP = None THEN <<>> ELSE c.NTP[1].Timeservers

C10_FullReplace ==
    (caller = "Apply" /\ Succeeded(4)) =>
        /\ dirExists
        /\ DOMAIN dir = {f.Name : f \in Range(GeneratedFiles[Config(cfg)])}
        /\ \A f \in Range(GeneratedFiles[Config(cfg)]) :
              \/ dir[f.Name] = f.Contents
              \/ \E g \in Range(GeneratedFiles[Config(cfg)]) :
                    g.Name = f.Name /\ g # f /\ dir[f.Name] = g.Contents

\* the directory held files of another config before it was regenerated
C10_Witness ==
    /\ caller = "Apply"
    /\ Succeeded(4)
    /\ onDisk.otherFiles

\* the function name has returned on its own
Returned(name) == fn = name /\ ret # <<>>

\* the tags the bridge of a device carries: its primary tag when non-zero, its
\* additional tags, and the IDs of the VLANs declared on it
TagUnion(bridgeName, specificVLAN, additionalVLANTags, vlans) ==
    (IF specificVLAN # 0 THEN {specificVLAN} ELSE {})
    \cup Range(additionalVLANTags)
    \cup {v.ID : v \in {w \in Range(vlans) : w.Parent = bridgeName}}

\* the lines of text that are a VLAN= entry of a [BridgeVLAN] section
TaggedEntries(text) ==
    SelectSeq(text, LAMBDA line :
        \E tag \in {0} \cup TagChoices : line = "VLAN=" \o ToString(tag))

\* C11: the VLAN= entries generateBridgeVLANContents emits are the ascending,
\* duplicate-free union of the primary tag (when non-zero), the additional tags
\* and the IDs of the VLANs whose Parent is the device; a non-zero primary tag
\* has one PVID/EgressUntagged block before them, and a zero one has none.
C11_AscendingUnion ==
    Returned("generateBridgeVLANContents") =>
        LET text == ret[1]
            entries == TaggedEntries(text)
            tags == TagUnion(args[1], args[2], args[3], args[4])
        IN  /\ Len(entries) = Cardinality(tags)
            /\ {entries[i] : i \in DOMAIN entries} = {"VLAN=" \o ToString(t) : t \in tags}
            /\ \A i, j \in DOMAIN entries :
                  i < j => \E t, u \in tags : /\ t < u
                                              /\ entries[i] = "VLAN=" \o ToString(t)
                                              /\ entries[j] = "VLAN=" \o ToString(u)
            /\ \A i \in DOMAIN text :
                  text[i] \in {"VLAN=" \o ToString(t) : t \in tags} =>
                      i > 2 /\ text[i - 1] = "[BridgeVLAN]" /\ text[i - 2] = ""
            /\ IF args[2] # 0
               THEN /\ Len(text) >= 4
                    /\ SubSeq(text, 1, 4) = <<"", "[BridgeVLAN]",
                                              "PVID=" \o ToString(args[2]),
                                              "EgressUntagged=" \o ToString(args[2])>>
                    /\ \A i \in 5 .. Len(text) :
                          text[i] \notin {"PVID=" \o ToString(args[2]),
                                          "EgressUntagged=" \o ToString(args[2])}
               ELSE \A i \in DOMAIN text :
                       \A t \in {0} \cup TagChoices :
                           text[i] \notin {"PVID=" \o ToString(t),
                                           "EgressUntagged=" \o ToString(t)}

\* a primary tag repeated in the trunk list and in a VLAN of the device, next to
\* a VLAN declared on another device
C11_Witness ==
    /\ Returned("generateBridgeVLANContents")
    /\ args[2] # 0
    /\ args[2] \in Range(args[3])
    /\ \E v, w \in Range(args[4]) :
          v.Parent = args[1] /\ v.ID \in Range(args[3]) /\ w.Parent # args[1]
    /\ Len(TaggedEntries(ret[1])) >= 2

\* the tokens of an address list that are literal addresses
Literals(addresses) == {a \in Range(addresses) : ~IsKeyword(a)}

\* C12 as stated: processAddresses enables link-local IPv6 addressing only when
\* the address list holds no literal address.
C12_LinkLocalOnlyWithoutLiteral ==
    Returned("processAddresses") =>
        ("LinkLocalAddressing=ipv6" \in Range(ret[1]) => Literals(args[1]) = {})

\* C12 as amended: processAddresses enables link-local IPv6 addressing exactly
\* when the address list is not empty, whatever its tokens are; for an empty list
\* it emits LinkLocalAddressing=no with ConfigureWithoutCarrier=yes.
C12_LinkLocalIffAddresses ==
    Returned("processAddresses") =>
        LET text == ret[1]
        IN  /\ "LinkLocalAddressing=ipv6" \in Range(text) <=> Len(args[1]) >= 1
            /\ "LinkLocalAddressing=no" \in Range(text) <=> Len(args[1]) = 0
            /\ "ConfigureWithoutCarrier=yes" \in Range(text) <=> Len(args[1]) = 0
            /\ Cardinality({i \in DOMAIN text :
                               text[i] \in {"LinkLocalAddressing=ipv6",
                                            "LinkLocalAddressing=no"}}) = 1

\* a list that mixes a literal address with keywords has link-local addressing on
C12_Witness ==
    /\ Returned("processAddresses")
    /\ Literals(args[1]) # {}
    /\ "dhcp4" \in Range(args[1])
    /\ "LinkLocalAddressing=ipv6" \in Range(ret[1])
    /\ "Address=10.0.0.5/24" \in Range(ret[1])

\* C13: generateLinkSectionContents emits RequiredForOnline=no for an empty
\* address list or the policy "no", required with family any for an unset policy
\* and at least one address, and required with the given family otherwise; so
\* every file the generators emit as required for online is that of a device of
\* the check set of the online wait.
C13_RequiredForOnlineLaw ==
    /\ Returned("generateLinkSectionContents") =>
          LET text == ret[1]
          IN  /\ (Len(args[1]) = 0 \/ args[2] = "no") =>
                    text = <<"RequiredForOnline=no">>
              /\ (Len(args[1]) >= 1 /\ args[2] = "") =>
                    text = <<"RequiredForOnline=yes", "RequiredFamilyForOnline=any">>
              /\ (Len(args[1]) >= 1 /\ args[2] \notin {"", "no"}) =>
                    text = <<"RequiredForOnline=yes",
                             "RequiredFamilyForOnline=" \o args[2]>>
    /\ Returned("generators") =>
          \A i \in DOMAIN ret[1] :
              "RequiredForOnline=yes" \in Range(ret[1][i].Contents) =>
                  \E d \in Range(args[1].Interfaces) \cup Range(args[1].Bonds)
                           \cup Range(args[1].VLANs) :
                      /\ ret[1][i].Contents[2] = "Name=" \o d.Name
                      /\ Len(d.Addresses) >= 1
                      /\ d.Name \in Range(devicesToCheck(args[1]))

\* an unset policy with an address list of two tokens is emitted as required, any
C13_Witness ==
    /\ Returned("generateLinkSectionContents")
    /\ Len(args[1]) = 2
    /\ args[2] = ""
    /\ ret[1] = <<"RequiredForOnline=yes", "RequiredFamilyForOnline=any">>

\* the requests that fired the trigger t
Fired(t) == {i \in DOMAIN responses : responses[i].fired = t}

\* C14: over any sequence or interleaving of requests each trigger is fired at
\* most once, no handler panics on a trigger that is already closed, and requests
\* that are not a PUT of a recognized action fire no trigger.
C14_OneShotNoFault ==
    /\ Cardinality(Fired("shutdown")) <= 1
    /\ Cardinality(Fired("reboot")) <= 1
    /\ \A i \in DOMAIN responses :
          /\ responses[i].response # "panic: close of closed channel"
          /\ (responses[i].method # "PUT"
              \/ responses[i].action \notin {"shutdown", "poweroff", "reboot"}) =>
                 responses[i].fired = ""

\* the hardware addresses of the config c, normalised: those of its interfaces and
\* of the members of its bonds
Hwaddrs(c) ==
    [i \in DOMAIN c.Interfaces |-> StrippedHwaddr(c.Interfaces[i].Hwaddr)]
    \o Flatten([b \in DOMAIN c.Bonds |->
                   [m \in DOMAIN c.Bonds[b].Members |->
                       StrippedHwaddr(c.Bonds[b].Members[m])]])

\* C15: for a config that passes validation, with device names unique across
\* interfaces, bonds and VLANs and hardware addresses pairwise distinct, the file
\* names the three generators produce are pairwise distinct.
C15_DistinctFileNames ==
    (/\ Returned("generators")
     /\ ValidateNetworkConfiguration(args[1]) = ""
     /\ Unique(DeviceNames(args[1]))
     /\ Unique(Hwaddrs(args[1]))) =>
        \A i, j \in DOMAIN ret[1] : ret[1][i].Name = ret[1][j].Name => i = j
====
